---------------------------- MODULE Spec2Model ----------------------------
(***************************************************************************)
(* fire_in_the_term: the heat grid of the ASCII fireplace (struct App),    *)
(* its three methods (resize, update_fire, render_fire), the driver loop   *)
(* run_app and the terminal set-up / restoration of main, as one state     *)
(* machine.  Source: src/src/main.rs.                                      *)
(*                                                                         *)
(* Four specifications are given over the same variables:                  *)
(*   Spec        the whole program, main -> run_app -> restoration;        *)
(*   SpecLive    the program on the smallest terminals, running to         *)
(*               completion while time passes;                             *)
(*   SpecApp     the App value alone, under every sequence of resize and   *)
(*               update_fire calls;                                        *)
(*   SpecRender  render_fire on one cell of any heat.                      *)
(***************************************************************************)
EXTENDS Integers, FiniteSets, Sequences, TLC

(***************************************************************************)
(* Bounds of the exploration: grid width and height, length of a call      *)
(* sequence in SpecApp, updates in one run of the program, and the longest *)
(* time measured, in ms.                                                   *)
(***************************************************************************)
MaxWidth == 3
MaxHeight == 2
MaxTicks == 2
MaxLoopTicks == 1
MaxElapsed == 90

(***************************************************************************)
(* Program constants.                                                      *)
(***************************************************************************)
U8Max == 255
CharMapLen == 12
ColorMapLen == 11
TickRate == 60
BorderInset == 2
F32MantBits == 24

Min(a, b) == IF a < b THEN a ELSE b
Max(a, b) == IF a > b THEN a ELSE b
Abs(a) == IF a < 0 THEN -a ELSE a

(***************************************************************************)
(* u8::saturating_add and u8::saturating_sub.                              *)
(***************************************************************************)
SatAdd(a, b) == Min(a + b, U8Max)

SatSubWrongFloor(a, b) == a - b

SatSub(a, b) == Max(a - b, 0)

(***************************************************************************)
(* The ranges of the random draws of update_fire.                          *)
(***************************************************************************)
DecayRange == 15..18
FluctRange == 12..15
IgniteRange == 200..255
SourceDecayRange == 0..5

(***************************************************************************)
(* vec![vec![0; width]; height]; rows and columns are indexed from 0 as in *)
(* the source.                                                             *)
(***************************************************************************)
Zeros(w, h) == [y \in 0..(h - 1) |-> [x \in 0..(w - 1) |-> 0]]

IsGrid(g, w, h) ==
    /\ DOMAIN g = 0..(h - 1)
    /\ \A y \in 0..(h - 1) : DOMAIN g[y] = 0..(w - 1)

AllZero(g, w, h) == \A y \in 0..(h - 1) : \A x \in 0..(w - 1) : g[y][x] = 0

(***************************************************************************)
(* center_bias = 1 - |x - width/2| / (width/2) is the rational             *)
(* CenterBiasNum(x, w) / w.  powf(0.2) maps 0 to 0 and 1 to 1 and every    *)
(* value in between strictly in between, and random_bool(p) is always      *)
(* false for p = 0 and always true for p = 1.                              *)
(***************************************************************************)
CenterBiasNumNoAbs(x, w) == w - (2 * x - w)

CenterBiasNumSymmetric(x, w) == (w - 1) - Abs(2 * x - (w - 1))

CenterBiasNum(x, w) == w - Abs(2 * x - w)

CanIgnite(x, w) == CenterBiasNum(x, w) > 0

MustIgnite(x, w) == CenterBiasNum(x, w) = w

(***************************************************************************)
(* The random draws of one update_fire call: one decay amount, one         *)
(* fluctuation and one coin per interior cell, one ignition outcome, one   *)
(* injected heat and one source decay per column.                          *)
(* The draws enumerated are: from each range its two ends, every ignition  *)
(* pattern the probabilities allow, and the draw vectors that are constant *)
(* over the cells.                                                         *)
(***************************************************************************)
Ends(S) == {v \in S : (\A u \in S : v <= u) \/ (\A u \in S : v >= u)}

IgnitePatterns(w) ==
    {S \in SUBSET (0..(w - 1)) :
        \A x \in 0..(w - 1) : /\ MustIgnite(x, w) => x \in S
                              /\ x \in S => CanIgnite(x, w)}

RandomDraws(w, h) ==
    [decay : {[y \in 0..(h - 2) |-> [x \in 0..(w - 1) |-> d]] : d \in Ends(DecayRange)},
     fluct : {[y \in 0..(h - 2) |-> [x \in 0..(w - 1) |-> f]] : f \in Ends(FluctRange)},
     add : {[y \in 0..(h - 2) |-> [x \in 0..(w - 1) |-> b]] : b \in BOOLEAN},
     ignite : IgnitePatterns(w),
     heat : {[x \in 0..(w - 1) |-> v] : v \in Ends(IgniteRange)},
     src_decay : {[x \in 0..(w - 1) |-> s] : s \in Ends(SourceDecayRange)}]

(***************************************************************************)
(* Step 1 of update_fire, one interior cell (lines 91-119).                *)
(***************************************************************************)
InteriorHeatBelowLeft(g, w, x, y, rnd) ==
    LET current_heat == g[y][x]
        below_heat == g[y + 1][IF x > 0 THEN x - 1 ELSE x]
        base == SatAdd(below_heat \div 2, current_heat \div 3)
        with_left == IF x > 0 THEN SatAdd(base, g[y][x - 1] \div 8) ELSE base
        new_cell_heat == IF x < w - 1
                           THEN SatAdd(with_left, g[y][x + 1] \div 8)
                           ELSE with_left
        decayed_heat == SatSub(new_cell_heat, rnd.decay[y][x])
    IN  IF rnd.add[y][x]
          THEN SatAdd(decayed_heat, rnd.fluct[y][x])
          ELSE SatSub(decayed_heat, rnd.fluct[y][x])

RECURSIVE InteriorHeatInPlace(_, _, _, _, _)
InteriorHeatInPlace(g, w, x, y, rnd) ==
    LET current_heat == g[y][x]
        below_heat == g[y + 1][x]
        base == SatAdd(below_heat \div 2, current_heat \div 3)
        with_left == IF x > 0
                       THEN SatAdd(base,
                                   InteriorHeatInPlace(g, w, x - 1, y, rnd) \div 8)
                       ELSE base
        new_cell_heat == IF x < w - 1
                           THEN SatAdd(with_left, g[y][x + 1] \div 8)
                           ELSE with_left
        decayed_heat == SatSub(new_cell_heat, rnd.decay[y][x])
    IN  IF rnd.add[y][x]
          THEN SatAdd(decayed_heat, rnd.fluct[y][x])
          ELSE SatSub(decayed_heat, rnd.fluct[y][x])

InteriorHeat(g, w, x, y, rnd) ==
    LET current_heat == g[y][x]
        below_heat == g[y + 1][x]
        base == SatAdd(below_heat \div 2, current_heat \div 3)
        with_left == IF x > 0 THEN SatAdd(base, g[y][x - 1] \div 8) ELSE base
        new_cell_heat == IF x < w - 1
                           THEN SatAdd(with_left, g[y][x + 1] \div 8)
                           ELSE with_left
        decayed_heat == SatSub(new_cell_heat, rnd.decay[y][x])
    IN  IF rnd.add[y][x]
          THEN SatAdd(decayed_heat, rnd.fluct[y][x])
          ELSE SatSub(decayed_heat, rnd.fluct[y][x])

(***************************************************************************)
(* update_fire for height >= 1: next_grid starts as zeros (line 83), step  *)
(* 1 writes the rows above the log row from fire_grid, step 2 writes the   *)
(* log row from next_grid itself (lines 134, 137-138).                     *)
(***************************************************************************)
NextGridSourceFirst(g, w, h, rnd) ==
    LET log_row == h - 1
        seeded == [y \in 0..(h - 1) |->
                     [x \in 0..(w - 1) |->
                         IF y = log_row
                           THEN IF x \in rnd.ignite
                                  THEN rnd.heat[x]
                                  ELSE SatSub(0, rnd.src_decay[x])
                           ELSE g[y][x]]]
    IN  [y \in 0..(h - 1) |->
            [x \in 0..(w - 1) |->
                IF y < log_row
                  THEN InteriorHeat(seeded, w, x, y, rnd)
                  ELSE seeded[y][x]]]

NextGridDecayPrevious(g, w, h, rnd) ==
    LET log_row == h - 1
    IN  [y \in 0..(h - 1) |->
            [x \in 0..(w - 1) |->
                IF y = log_row
                  THEN IF x \in rnd.ignite
                         THEN rnd.heat[x]
                         ELSE SatSub(g[log_row][x], rnd.src_decay[x])
                  ELSE InteriorHeat(g, w, x, y, rnd)]]

NextGrid(g, w, h, rnd) ==
    LET log_row == h - 1
        step1 == [y \in 0..(h - 1) |->
                    [x \in 0..(w - 1) |->
                        IF y < log_row THEN InteriorHeat(g, w, x, y, rnd) ELSE 0]]
    IN  [y \in 0..(h - 1) |->
            [x \in 0..(w - 1) |->
                IF y = log_row
                  THEN IF x \in rnd.ignite
                         THEN rnd.heat[x]
                         ELSE SatSub(step1[log_row][x], rnd.src_decay[x])
                  ELSE step1[y][x]]]

(***************************************************************************)
(* render_fire: the pair of table indices of one heat value.               *)
(***************************************************************************)
(* f32 arithmetic.  A positive f32 is the pair <<m, e>> standing for       *)
(* m * 2^e with 2^23 <= m < 2^24; zero is <<0, 0>>.  Every operation is    *)
(* rounded to nearest, ties to even, as IEEE 754 single precision is.      *)
RECURSIVE Pow2(_)
Pow2(n) == IF n = 0 THEN 1 ELSE 2 * Pow2(n - 1)

F32Top == Pow2(F32MantBits)

(* Round m + (a dropped fraction): guard is the first dropped bit, sticky  *)
(* says whether any later dropped bit is set.                              *)
F32Round(m, e, guard, sticky) ==
    LET up == guard = 1 /\ (sticky \/ m % 2 = 1)
        r  == IF up THEN m + 1 ELSE m
    IN  IF r = F32Top THEN <<r \div 2, e + 1>> ELSE <<r, e>>

(* Long division n / d, one quotient bit a step, until the quotient has    *)
(* the mantissa bits and one guard bit.                                    *)
RECURSIVE F32DivBits(_, _, _, _)
F32DivBits(q, r, d, k) ==
    IF q >= F32Top
      THEN F32Round(q \div 2, 1 - k, q % 2, r # 0)
      ELSE F32DivBits(2 * q + (IF 2 * r >= d THEN 1 ELSE 0),
                      (2 * r) % d, d, k + 1)

(* n as f32 / d as f32, for integers 0 <= n and 0 < d below 2^24. *)
F32Div(n, d) == IF n = 0 THEN <<0, 0>> ELSE F32DivBits(n \div d, n % d, d, 0)

(* Drop low bits of the exact product p * 2^e until it fits the mantissa. *)
RECURSIVE F32Fit(_, _, _, _)
F32Fit(p, e, guard, sticky) ==
    IF p >= F32Top
      THEN F32Fit(p \div 2, e + 1, p % 2, sticky \/ guard = 1)
      ELSE F32Round(p, e, guard, sticky)

(* v * (k as f32), for a small positive integer k. *)
F32MulInt(v, k) == IF v[1] = 0 THEN v ELSE F32Fit(v[1] * k, v[2], 0, FALSE)

(* v as usize: truncation toward zero. *)
F32ToUsize(v) ==
    IF v[2] >= 0 THEN v[1] * Pow2(v[2]) ELSE v[1] \div Pow2(0 - v[2])

(* (heat as f32 / 255.0 * (len - 1) as f32) as usize *)
QuantizeToLen(heat, len) == F32ToUsize(F32MulInt(F32Div(heat, U8Max), len))

Quantize(heat, len) == F32ToUsize(F32MulInt(F32Div(heat, U8Max), len - 1))

CharIndexTable == [heat \in 0..U8Max |-> Quantize(heat, CharMapLen)]

ColorIndexTable == [heat \in 0..U8Max |-> Quantize(heat, ColorMapLen)]

CharIndex(heat) == CharIndexTable[heat]

ColorIndex(heat) == ColorIndexTable[heat]

RenderFire(g, w, h) ==
    [y \in 0..(h - 1) |->
        [x \in 0..(w - 1) |-> <<CharIndex(g[y][x]), ColorIndex(g[y][x])>>]]


(***************************************************************************)
(* App::new, App::resize and App::update_fire on the App value             *)
(* [fire_grid, width, height] (char_map and color_map never change and are *)
(* the two table lengths above).                                           *)
(***************************************************************************)
AppNew(w, h) == [fire_grid |-> Zeros(w, h), width |-> w, height |-> h]

AppResizeWidthOnly(a, new_width, new_height) ==
    IF a.width # new_width
      THEN [fire_grid |-> Zeros(new_width, new_height),
            width |-> new_width, height |-> new_height]
      ELSE a

AppResizeNever(a, new_width, new_height) == a

AppResize(a, new_width, new_height) ==
    IF a.width # new_width \/ a.height # new_height
      THEN [fire_grid |-> Zeros(new_width, new_height),
            width |-> new_width, height |-> new_height]
      ELSE a

AppUpdateFire(a, rnd) ==
    [a EXCEPT !.fire_grid = NextGrid(a.fire_grid, a.width, a.height, rnd)]

(***************************************************************************)
(* State.                                                                  *)
(*   app          the App value                                            *)
(*   frame        the Text of the last render_fire                         *)
(*   call         the last App method called, with its arguments and, for  *)
(*                update_fire, the columns its ignition draws lit          *)
(*   old          the App value that call was made on                      *)
(*   ticks        number of update_fire calls made; in SpecApp, where the  *)
(*                caller is arbitrary, of resize and update_fire calls     *)
(*   panicked     the thread has panicked                                  *)
(*   pc           position in main / run_app                               *)
(*   term         terminal size <<columns, rows>>                          *)
(*   raw_mode, alt_screen   the terminal's modes                           *)
(*   res          result of run_app                                        *)
(*   event        the last event read by event::read                       *)
(*   elapsed      last_tick.elapsed(), in ms                               *)
(*   failed       the fallible operations that returned Err                *)
(*   reported     the errors printed to the operator                       *)
(*   exit_status  process exit status once pc = "exit"                     *)
(***************************************************************************)
VARIABLES app, frame, call, old, ticks, panicked, pc, term, raw_mode,
          alt_screen, res, event, elapsed, failed, reported, exit_status

vars == <<app, frame, call, old, ticks, panicked, pc, term, raw_mode,
          alt_screen, res, event, elapsed, failed, reported, exit_status>>

appVars == <<app, frame, call, old, ticks, panicked>>

driverVars == <<pc, term, raw_mode, alt_screen, res, event, elapsed, failed,
               reported, exit_status>>

NoCall == [op |-> "none", w |-> 0, h |-> 0, ignite |-> {}]

NoFrame == <<>>

(***************************************************************************)
(* SpecApp: an App value under arbitrary method calls.                     *)
(***************************************************************************)
Widths == 0..MaxWidth
Heights == 0..MaxHeight

InitApp ==
    /\ \E w \in Widths, h \in Heights :
          /\ app = AppNew(w, h)
          /\ call = [op |-> "new", w |-> w, h |-> h, ignite |-> {}]
          /\ old = AppNew(w, h)
    /\ frame = NoFrame
    /\ ticks = 0
    /\ panicked = FALSE
    /\ pc = "app"
    /\ term = <<0, 0>>
    /\ raw_mode = FALSE
    /\ alt_screen = FALSE
    /\ res = "none"
    /\ event = "none"
    /\ elapsed = 0
    /\ failed = {}
    /\ reported = {}
    /\ exit_status = -1

(***************************************************************************)
(* The three methods as steps on the state.  update_fire evaluates         *)
(* self.height - 1 (lines 88, 125): with height = 0 the subtraction        *)
(* overflows usize.  A build with overflow checks panics there; a build    *)
(* without them wraps to usize::MAX, then indexes fire_grid out of bounds  *)
(* (line 91, panic) when width > 0, and runs through both loops without    *)
(* touching a cell when width = 0.                                         *)
(***************************************************************************)
DoResize(new_width, new_height) ==
    /\ app' = AppResize(app, new_width, new_height)
    /\ old' = app
    /\ call' = [op |-> "resize", w |-> new_width, h |-> new_height, ignite |-> {}]

DoUpdateOk ==
    /\ app.height >= 1
    /\ \E rnd \in RandomDraws(app.width, app.height) :
          /\ app' = AppUpdateFire(app, rnd)
          /\ call' = [op |-> "update_fire", w |-> app.width, h |-> app.height,
                      ignite |-> rnd.ignite]
    /\ old' = app
    /\ ticks' = ticks + 1
    /\ panicked' = FALSE

DoUpdateWrapped ==
    /\ app.height = 0
    /\ app.width = 0
    /\ app' = [app EXCEPT !.fire_grid = Zeros(0, 0)]
    /\ call' = [op |-> "update_fire", w |-> 0, h |-> 0, ignite |-> {}]
    /\ old' = app
    /\ ticks' = ticks + 1
    /\ panicked' = FALSE

DoUpdatePanic ==
    /\ app.height = 0
    /\ panicked' = TRUE
    /\ call' = [op |-> "update_fire", w |-> app.width, h |-> app.height,
                ignite |-> {}]
    /\ old' = app
    /\ UNCHANGED <<app, ticks>>

Resize ==
    /\ pc = "app"
    /\ ~panicked
    /\ ticks < MaxTicks
    /\ \E w \in Widths, h \in Heights : DoResize(w, h)
    /\ ticks' = ticks + 1
    /\ UNCHANGED <<frame, panicked, driverVars>>

UpdateFire ==
    /\ pc = "app"
    /\ ~panicked
    /\ ticks < MaxTicks
    /\ \/ DoUpdateOk
       \/ DoUpdateWrapped
       \/ DoUpdatePanic
    /\ UNCHANGED <<frame, driverVars>>

NextApp == Resize \/ UpdateFire

SpecApp == InitApp /\ [][NextApp]_vars

(***************************************************************************)
(* SpecRender: render_fire as a function of the heat value.  The grid is   *)
(* one cell holding any u8, and the one step renders it.                   *)
(***************************************************************************)
InitRender ==
    /\ \E heat \in 0..U8Max :
          /\ app = [fire_grid |-> [y \in 0..0 |-> [x \in 0..0 |-> heat]],
                    width |-> 1, height |-> 1]
          /\ old = app
    /\ call = [op |-> "new", w |-> 1, h |-> 1, ignite |-> {}]
    /\ frame = NoFrame
    /\ ticks = 0
    /\ panicked = FALSE
    /\ pc = "render"
    /\ term = <<0, 0>>
    /\ raw_mode = FALSE
    /\ alt_screen = FALSE
    /\ res = "none"
    /\ event = "none"
    /\ elapsed = 0
    /\ failed = {}
    /\ reported = {}
    /\ exit_status = -1

Render ==
    /\ pc = "render"
    /\ call.op # "render_fire"
    /\ frame' = RenderFire(app.fire_grid, app.width, app.height)
    /\ call' = [op |-> "render_fire", w |-> app.width, h |-> app.height,
                ignite |-> {}]
    /\ UNCHANGED <<app, old, ticks, panicked, driverVars>>

SpecRender == InitRender /\ [][Render]_vars

(***************************************************************************)
(* Spec: the program.  The environment supplies the terminal size, the     *)
(* success or failure of every fallible terminal operation, the events and *)
(* the passing of time.                                                    *)
(***************************************************************************)
(***************************************************************************)
(* The terminal sizes explored: one for every inner area of Widths by      *)
(* Heights, and one with fewer columns and rows than the border takes.     *)
(***************************************************************************)
TermSizes ==
    {<<w + BorderInset, h + BorderInset>> : w \in Widths, h \in Heights}
        \cup {<<BorderInset - 1, BorderInset - 1>>}

(* Block::inner of a block with Borders::ALL (lines 195-204). *)
InnerArea(area) ==
    <<Max(area[1] - BorderInset, 0), Max(area[2] - BorderInset, 0)>>

(* The events event::read can return (lines 232-250). *)
KeyQPress == "press q"
KeyCtrlC == "press ctrl-c"
KeyOtherPress == "press x"
KeyQRelease == "release q"
ResizeEvent == "resize"
OtherEvent == "focus"
Events == {KeyQPress, KeyCtrlC, KeyOtherPress, KeyQRelease, ResizeEvent, OtherEvent}

(* Durations, in ms: of one terminal.draw (a slow terminal can take longer *)
(* than a tick), and of the wait of event::poll.                           *)
DrawTimes == {0, 30, 90}
PollWaits == {0, 30, 60}

Advance(t, dt) == Min(t + dt, MaxElapsed)

Init ==
    /\ app = AppNew(0, 0)
    /\ frame = NoFrame
    /\ call = NoCall
    /\ old = AppNew(0, 0)
    /\ ticks = 0
    /\ panicked = FALSE
    /\ pc = "enable_raw_mode"
    /\ term \in TermSizes
    /\ raw_mode = FALSE
    /\ alt_screen = FALSE
    /\ res = "none"
    /\ event = "none"
    /\ elapsed = 0
    /\ failed = {}
    /\ reported = {}
    /\ exit_status = -1

(***************************************************************************)
(* main returns Err through `?`: the runtime prints the error and the      *)
(* process exits with status 1.  Nothing else of main runs.                *)
(***************************************************************************)
ReturnErr(what) ==
    /\ failed' = failed \cup {what}
    /\ reported' = reported \cup {what}
    /\ exit_status' = 1
    /\ pc' = "exit"

(* line 267 *)
EnableRawMode ==
    /\ pc = "enable_raw_mode"
    /\ \/ /\ raw_mode' = TRUE
          /\ pc' = "enter_alternate_screen"
          /\ UNCHANGED <<failed, reported, exit_status>>
       \/ /\ ReturnErr("enable_raw_mode")
          /\ UNCHANGED raw_mode
    /\ UNCHANGED <<appVars, term, alt_screen, res, event, elapsed>>

(* line 272 *)
EnterAlternateScreen ==
    /\ pc = "enter_alternate_screen"
    /\ \/ /\ alt_screen' = TRUE
          /\ pc' = "terminal_new"
          /\ UNCHANGED <<failed, reported, exit_status>>
       \/ /\ ReturnErr("enter_alternate_screen")
          /\ UNCHANGED alt_screen
    /\ UNCHANGED <<appVars, term, raw_mode, res, event, elapsed>>

(* lines 274-276 *)
TerminalNew ==
    /\ pc = "terminal_new"
    /\ \/ /\ pc' = "terminal_size"
          /\ UNCHANGED <<failed, reported, exit_status>>
       \/ ReturnErr("terminal_new")
    /\ UNCHANGED <<appVars, term, raw_mode, alt_screen, res, event, elapsed>>

(* lines 280-285, 185-186: the size query, App::new, entry of run_app *)
TerminalSize ==
    /\ pc = "terminal_size"
    /\ \/ /\ app' = AppNew(term[1], term[2])
          /\ old' = AppNew(term[1], term[2])
          /\ call' = [op |-> "new", w |-> term[1], h |-> term[2], ignite |-> {}]
          /\ elapsed' = 0
          /\ pc' = "draw"
          /\ UNCHANGED <<failed, reported, exit_status>>
       \/ /\ ReturnErr("terminal_size")
          /\ UNCHANGED <<app, old, call, elapsed>>
    /\ UNCHANGED <<frame, ticks, panicked, term, raw_mode, alt_screen, res, event>>

(***************************************************************************)
(* run_app owns app, tick_rate and last_tick (line 182): they are dropped  *)
(* when it returns.  It returns Err through `?` (lines 221, 230, 232, 247) *)
(* and Ok(()) on 'q' (line 238); main keeps the result in res and goes on  *)
(* to the restoration.                                                     *)
(***************************************************************************)
NoApp == AppNew(0, 0)

RunAppReturn(result) ==
    /\ res' = result
    /\ pc' = "disable_raw_mode"
    /\ app' = NoApp
    /\ old' = NoApp
    /\ call' = NoCall
    /\ frame' = NoFrame
    /\ elapsed' = 0

RunAppErr(what) ==
    /\ failed' = failed \cup {what}
    /\ RunAppReturn("Err")

(***************************************************************************)
(* lines 191-221: terminal.draw.  It can fail (its own autoresize before   *)
(* the closure, the flush after it); the closure resizes the grid to the   *)
(* inner area of the frame, then renders it: render_fire is the last call  *)
(* on the App value.                                                       *)
(***************************************************************************)
Draw ==
    /\ pc = "draw"
    /\ \/ RunAppErr("draw")
       \/ /\ LET inner_area == InnerArea(term)
             IN  app' = AppResize(app, inner_area[1], inner_area[2])
          /\ frame' = RenderFire(app'.fire_grid, app'.width, app'.height)
          /\ call' = [op |-> "render_fire", w |-> app'.width, h |-> app'.height,
                      ignite |-> {}]
          /\ old' = app'
          /\ \E dt \in DrawTimes : elapsed' = Advance(elapsed, dt)
          /\ pc' = "poll"
          /\ UNCHANGED <<failed, res>>
    /\ UNCHANGED <<ticks, panicked, term, raw_mode, alt_screen, event, reported,
                   exit_status>>

(***************************************************************************)
(* lines 226-230: timeout = tick_rate - elapsed, or 0 when elapsed is      *)
(* larger; event::poll returns true as soon as an event is there and false *)
(* when the timeout has passed.                                            *)
(***************************************************************************)
PollTimeoutNoFloor(t) == TickRate - t

PollTimeout(t) == IF TickRate >= t THEN TickRate - t ELSE 0

Poll ==
    /\ pc = "poll"
    /\ LET timeout == PollTimeout(elapsed)
       IN  \/ RunAppErr("poll")
           \/ /\ \E wait \in PollWaits :
                    /\ wait <= timeout
                    /\ elapsed' = Advance(elapsed, wait)
              /\ pc' = "read"
              /\ UNCHANGED <<app, old, call, frame, failed, res>>
           \/ /\ elapsed' = Advance(elapsed, timeout)
              /\ pc' = "tick"
              /\ UNCHANGED <<app, old, call, frame, failed, res>>
    /\ UNCHANGED <<ticks, panicked, term, raw_mode, alt_screen, event, reported,
                   exit_status>>

(***************************************************************************)
(* lines 232-250: event::read and the match on the event.  In raw mode     *)
(* Ctrl+C raises no signal: it is read as the key event 'c' with the       *)
(* CONTROL modifier.                                                       *)
(***************************************************************************)
IsQuitNever(ev) == FALSE

IsQuit(ev) == ev = KeyQPress

HandleEventResizesNow(ev) ==
    \/ /\ IsQuit(ev)
       /\ RunAppReturn("Ok")
       /\ UNCHANGED <<failed, term>>
    \/ /\ ~IsQuit(ev)
       /\ ev # ResizeEvent
       /\ pc' = "tick"
       /\ UNCHANGED <<app, old, call, frame, elapsed, failed, res, term>>
    \/ /\ ev = ResizeEvent
       /\ \E size \in TermSizes : term' = size
       /\ \/ /\ pc' = "tick"
             /\ app' = AppResize(app, InnerArea(term')[1], InnerArea(term')[2])
             /\ UNCHANGED <<old, call, frame, elapsed, failed, res>>
          \/ RunAppErr("autoresize")

HandleEvent(ev) ==
    \/ /\ IsQuit(ev)
       /\ RunAppReturn("Ok")
       /\ UNCHANGED <<failed, term>>
    \/ /\ ~IsQuit(ev)
       /\ ev # ResizeEvent
       /\ pc' = "tick"
       /\ UNCHANGED <<app, old, call, frame, elapsed, failed, res, term>>
    \/ /\ ev = ResizeEvent
       /\ \E size \in TermSizes : term' = size
       /\ \/ /\ pc' = "tick"
             /\ UNCHANGED <<app, old, call, frame, elapsed, failed, res>>
          \/ RunAppErr("autoresize")

Read ==
    /\ pc = "read"
    /\ \/ /\ RunAppErr("read")
          /\ UNCHANGED <<event, term>>
       \/ \E ev \in Events :
             /\ event' = ev
             /\ HandleEvent(ev)
    /\ UNCHANGED <<ticks, panicked, raw_mode, alt_screen, reported, exit_status>>

(***************************************************************************)
(* lines 255-258: the update, once tick_rate has elapsed.  A panic of      *)
(* update_fire unwinds through run_app and main: the process ends with     *)
(* status 101 and none of the restoration runs.  The event read in this    *)
(* iteration goes out of scope at line 251.                                *)
(***************************************************************************)
TickDueAlways(t) == TRUE

TickDue(t) == t >= TickRate

Tick ==
    /\ pc = "tick"
    /\ \/ /\ TickDue(elapsed)
          /\ ticks < MaxLoopTicks
          /\ \/ /\ DoUpdateOk \/ DoUpdateWrapped
                /\ elapsed' = 0
                /\ pc' = "draw"
                /\ event' = "none"
                /\ UNCHANGED exit_status
             \/ /\ DoUpdatePanic
                /\ pc' = "exit"
                /\ exit_status' = 101
                /\ UNCHANGED <<elapsed, event>>
       \/ /\ ~TickDue(elapsed)
          /\ pc' = "draw"
          /\ event' = "none"
          /\ UNCHANGED <<appVars, elapsed, exit_status>>
    /\ UNCHANGED <<frame, term, raw_mode, alt_screen, res, failed, reported>>

(* line 289 *)
DisableRawMode ==
    /\ pc = "disable_raw_mode"
    /\ \/ /\ raw_mode' = FALSE
          /\ pc' = "leave_alternate_screen"
          /\ UNCHANGED <<failed, reported, exit_status>>
       \/ /\ ReturnErr("disable_raw_mode")
          /\ UNCHANGED raw_mode
    /\ UNCHANGED <<appVars, term, alt_screen, res, event, elapsed>>

(* line 291 *)
LeaveAlternateScreen ==
    /\ pc = "leave_alternate_screen"
    /\ \/ /\ alt_screen' = FALSE
          /\ pc' = "show_cursor"
          /\ UNCHANGED <<failed, reported, exit_status>>
       \/ /\ ReturnErr("leave_alternate_screen")
          /\ UNCHANGED alt_screen
    /\ UNCHANGED <<appVars, term, raw_mode, res, event, elapsed>>

(* line 293 *)
ShowCursor ==
    /\ pc = "show_cursor"
    /\ \/ /\ pc' = "report"
          /\ UNCHANGED <<failed, reported, exit_status>>
       \/ ReturnErr("show_cursor")
    /\ UNCHANGED <<appVars, term, raw_mode, alt_screen, res, event, elapsed>>

(* lines 297-301: print run_app's error, if any, and return Ok(()) *)
Report ==
    /\ pc = "report"
    /\ reported' = IF res = "Err" THEN reported \cup failed ELSE reported
    /\ exit_status' = 0
    /\ pc' = "exit"
    /\ UNCHANGED <<appVars, term, raw_mode, alt_screen, res, event, elapsed, failed>>

Next ==
    \/ EnableRawMode
    \/ EnterAlternateScreen
    \/ TerminalNew
    \/ TerminalSize
    \/ Draw
    \/ Poll
    \/ Read
    \/ Tick
    \/ DisableRawMode
    \/ LeaveAlternateScreen
    \/ ShowCursor
    \/ Report

Spec == Init /\ [][Next]_vars

(***************************************************************************)
(* SpecLive: the program running to completion on the smallest terminals   *)
(* (inner areas 0x0, 1x0, 1x1 and 2x2; the loop's progress does not depend *)
(* on what the grid holds).  The program keeps running: it is one          *)
(* sequential thread whose every call returns.  Time passes: a draw or a   *)
(* wait of zero length stands for one shorter than the clock's resolution, *)
(* and no run is made of such passes only.                                 *)
(***************************************************************************)
LiveTermSizes ==
    {<<BorderInset - 1, BorderInset - 1>>, <<BorderInset + 1, BorderInset>>,
     <<BorderInset + 1, BorderInset + 1>>, <<BorderInset + 2, BorderInset + 2>>}

InitLive == Init /\ term \in LiveTermSizes

ReadLive == Read /\ term' \in LiveTermSizes

NextLive ==
    \/ EnableRawMode
    \/ EnterAlternateScreen
    \/ TerminalNew
    \/ TerminalSize
    \/ Draw
    \/ Poll
    \/ ReadLive
    \/ Tick
    \/ DisableRawMode
    \/ LeaveAlternateScreen
    \/ ShowCursor
    \/ Report

TimePasses == (Draw \/ Poll) /\ elapsed' > elapsed

SpecLive ==
    InitLive /\ [][NextLive]_vars /\ WF_vars(NextLive) /\ SF_vars(TimePasses)

(***************************************************************************)
(*                              The claims                                 *)
(***************************************************************************)
Cells(w, h) == {<<x, y>> : x \in 0..(w - 1), y \in 0..(h - 1)}

Updated == call.op = "update_fire" /\ ~panicked

(* The grid is all zero except one cell; SeedOf is that cell. *)
Seeded(g, w, h) ==
    Cardinality({c \in Cells(w, h) : g[c[2]][c[1]] # 0}) = 1

SeedOf(g, w, h) == CHOOSE c \in Cells(w, h) : g[c[2]][c[1]] # 0

(* The seed, the cell directly above it, and its left and right neighbours. *)
Reach(s) ==
    {s, <<s[1], s[2] - 1>>, <<s[1] - 1, s[2]>>, <<s[1] + 1, s[2]>>}

C2_NeverPanics == ~panicked

(***************************************************************************)
(* C3: whenever the process has ended after raw mode was enabled, raw mode *)
(* is disabled again and the alternate screen has been left.               *)
(***************************************************************************)
C3_RestoredOnExit == pc = "exit" => (~raw_mode /\ ~alt_screen)

(***************************************************************************)
(* C4: a process in which a terminal operation failed reports an error and *)
(* exits with a non-zero status; status 0 is reached only by the quit key  *)
(* with no failure.                                                        *)
(***************************************************************************)
C4_FailureExitsNonZero ==
    pc = "exit" =>
        /\ failed # {} => (exit_status # 0 /\ reported # {})
        /\ exit_status = 0 => (failed = {} /\ event = KeyQPress)

C6_FromZeroAsStated ==
    (Updated /\ app.height >= 2
        /\ AllZero(old.fire_grid, old.width, old.height)) =>
        \A c \in Cells(app.width, app.height) :
            IF c[2] = app.height - 1
              THEN app.fire_grid[c[2]][c[1]] \in 0..U8Max
              ELSE app.fire_grid[c[2]][c[1]] = 0

(***************************************************************************)
(* C6, amended: one update_fire on an all-zero grid of height >= 2 leaves  *)
(* every cell above the source row 0 or in 12..15 (the fluctuation, when   *)
(* it is added) and the source row in 0..255.                              *)
(***************************************************************************)
C6_FromZero ==
    (Updated /\ app.height >= 2
        /\ AllZero(old.fire_grid, old.width, old.height)) =>
        \A c \in Cells(app.width, app.height) :
            IF c[2] = app.height - 1
              THEN app.fire_grid[c[2]][c[1]] \in 0..U8Max
              ELSE app.fire_grid[c[2]][c[1]] \in {0} \cup FluctRange

(* An update of an all-zero grid that ignited the source row and added the *)
(* fluctuation above it.                                                   *)
C6_Witness ==
    /\ Updated
    /\ app.height >= 2
    /\ app.width >= 2
    /\ AllZero(old.fire_grid, old.width, old.height)
    /\ \E x \in 0..(app.width - 1) : app.fire_grid[app.height - 1][x] >= 200
    /\ \E c \in Cells(app.width, app.height - 1) :
          app.fire_grid[c[2]][c[1]] \in FluctRange

(***************************************************************************)
(* C7: a source-row cell that is not ignited by an update_fire holds       *)
(* afterwards its previous value less a decay of 0..5, floored at 0.       *)
(***************************************************************************)
C7_SourceRowDecays ==
    (Updated /\ app.height >= 1) =>
        \A x \in 0..(app.width - 1) :
            x \notin call.ignite =>
                LET v == old.fire_grid[old.height - 1][x]
                IN  app.fire_grid[app.height - 1][x] \in Max(v - 5, 0)..v

(***************************************************************************)
(* C8: after resize(w, h) the grid has h rows of w cells and width, height *)
(* are (w, h); if (w, h) differed from the dimensions before in either     *)
(* component every cell is 0, otherwise the content is what it was.        *)
(***************************************************************************)
C8_Resize ==
    call.op = "resize" =>
        /\ app.width = call.w
        /\ app.height = call.h
        /\ IsGrid(app.fire_grid, call.w, call.h)
        /\ IF old.width # call.w \/ old.height # call.h
             THEN AllZero(app.fire_grid, call.w, call.h)
             ELSE app.fire_grid = old.fire_grid

(* A resize that changed the height alone, on a grid that held heat. *)
C8_Witness ==
    /\ call.op = "resize"
    /\ old.width = call.w
    /\ old.height # call.h
    /\ call.w >= 1
    /\ call.h >= 1
    /\ ~AllZero(old.fire_grid, old.width, old.height)
    /\ AllZero(app.fire_grid, app.width, app.height)

(***************************************************************************)
(* C9: once a press of 'q' has been read, no step of the loop is taken any *)
(* more: no draw (with its resize and render), no poll or read, no         *)
(* update_fire.                                                            *)
(***************************************************************************)
C9_QuitIsImmediate ==
    [][event = KeyQPress =>
          /\ ~(Draw \/ Poll \/ Read \/ Tick)
          /\ ticks' = ticks
          /\ call' = call
          /\ frame' = frame]_vars

(* The process has ended by 'q' after at least one update. *)
C9_Witness ==
    /\ pc = "exit"
    /\ event = KeyQPress
    /\ res = "Ok"
    /\ ticks >= 1

(***************************************************************************)
(* C10: reading Ctrl+C ends the loop with a clean result, as 'q' does.     *)
(***************************************************************************)
C10_CtrlCQuits == event = KeyCtrlC => res = "Ok"

(***************************************************************************)
(* C11: for every width >= 1 and every column x, center_bias lies in       *)
(* [0,1], is 0 at both edge columns x = 0 and x = width - 1, and is        *)
(* largest at the center column.  (center_bias is CenterBiasNum / width.)  *)
(***************************************************************************)
C11_CenterBias ==
    (Updated /\ app.width >= 1) =>
        LET w == app.width
        IN  \A x \in 0..(w - 1) :
                /\ CenterBiasNum(x, w) >= 0
                /\ CenterBiasNum(x, w) <= w
                /\ (x = 0 \/ x = w - 1) => CenterBiasNum(x, w) = 0
                /\ CenterBiasNum(x, w) <= CenterBiasNum(w \div 2, w)

(***************************************************************************)
(* C12: of two source-row columns the one nearer to width/2 has the        *)
(* strictly larger ignition probability.  The probability is center_bias   *)
(* to the power 0.2, which is strictly increasing on [0,1], so the order   *)
(* of the probabilities is the order of the center_bias values.            *)
(***************************************************************************)
C12_NearerIsLikelier ==
    Updated =>
        LET w == app.width
        IN  \A x1, x2 \in 0..(w - 1) :
                Abs(2 * x1 - w) < Abs(2 * x2 - w)
                    => CenterBiasNum(x1, w) > CenterBiasNum(x2, w)

(* An update of a grid with columns at different distances in which a      *)
(* nearer column ignited and a farther one did not.                        *)
C12_Witness ==
    /\ Updated
    /\ app.height >= 1
    /\ \E x1, x2 \in 0..(app.width - 1) :
          /\ Abs(2 * x1 - app.width) < Abs(2 * x2 - app.width)
          /\ x1 \in call.ignite
          /\ x2 \notin call.ignite
          /\ app.fire_grid[app.height - 1][x1] >= 200

(***************************************************************************)
(* C13: for every heat in 0..255 the glyph index and the colour index that *)
(* render_fire computes lie inside their tables (12 glyphs, 11 colours)    *)
(* and neither index decreases when the heat increases.                    *)
(***************************************************************************)
C13_IndicesInRangeAndMonotone ==
    call.op = "render_fire" =>
        \A c \in Cells(app.width, app.height) :
            LET heat == app.fire_grid[c[2]][c[1]]
                cell == frame[c[2]][c[1]]
            IN  /\ cell[1] \in 0..(CharMapLen - 1)
                /\ cell[2] \in 0..(ColorMapLen - 1)
                /\ cell = <<CharIndex(heat), ColorIndex(heat)>>
                /\ \A lower \in 0..heat :
                      /\ CharIndex(lower) <= cell[1]
                      /\ ColorIndex(lower) <= cell[2]

(* The hottest cell rendered: it takes the last glyph and the last colour. *)
C13_Witness ==
    /\ call.op = "render_fire"
    /\ app.width = 1 /\ app.height = 1
    /\ app.fire_grid[0][0] = U8Max
    /\ frame[0][0] = <<CharMapLen - 1, ColorMapLen - 1>>

(***************************************************************************)
(* C14: every cell above the source row is, after update_fire,             *)
(*   sat(sat(sat(below/2 + cur/3 + [x>0] left/8 + [x<width-1] right/8)     *)
(*           - d) +/- f)  with d in 15..18 and f in 12..15,                *)
(* all four readings being the values of the previous tick: nothing        *)
(* written in the same tick is read, and the edges do not wrap around.     *)
(***************************************************************************)
Clamp(v) == IF v < 0 THEN 0 ELSE IF v > U8Max THEN U8Max ELSE v

C14_InteriorRule ==
    (Updated /\ app.height >= 1) =>
        \A y \in 0..(app.height - 2), x \in 0..(app.width - 1) :
            LET prev == old.fire_grid
                sum  == (prev[y + 1][x] \div 2) + (prev[y][x] \div 3)
                        + (IF x > 0 THEN prev[y][x - 1] \div 8 ELSE 0)
                        + (IF x < app.width - 1
                             THEN prev[y][x + 1] \div 8 ELSE 0)
            IN  \E d \in DecayRange, f \in FluctRange, sign \in {-1, 1} :
                    app.fire_grid[y][x]
                        = Clamp(Clamp(Clamp(sum) - d) + sign * f)

(* An update of a cell that has a left and a right neighbour, all four     *)
(* readings contributing, after the left neighbour itself changed.         *)
C14_Witness ==
    /\ Updated
    /\ app.height >= 2
    /\ \E x \in 1..(app.width - 2) :
          /\ old.fire_grid[0][x - 1] >= 8
          /\ old.fire_grid[0][x + 1] >= 8
          /\ old.fire_grid[1][x] >= 2
          /\ old.fire_grid[0][x] >= 3
          /\ app.fire_grid[0][x - 1] # old.fire_grid[0][x - 1]
          /\ app.fire_grid[0][x] > 0

(***************************************************************************)
(* C15: update_fire is called only when at least the tick interval has     *)
(* elapsed since the last reset, at most once in a loop iteration, and     *)
(* each call that returns resets the elapsed time; a step that polls or    *)
(* reads an event never calls it.                                          *)
(***************************************************************************)
UpdateCalled == call'.op = "update_fire" /\ call.op # "update_fire"

C15_UpdateCadence ==
    [][/\ UpdateCalled =>
            /\ pc = "tick"
            /\ elapsed >= TickRate
            /\ ~panicked' => /\ ticks' = ticks + 1
                             /\ elapsed' = 0
                             /\ pc' = "draw"
       /\ ticks' # ticks => UpdateCalled
       /\ pc \in {"draw", "poll", "read"} => ~UpdateCalled]_vars

(* The loop is back at its top right after an update, with the elapsed     *)
(* time reset.                                                             *)
C15_Witness ==
    /\ Updated
    /\ pc = "draw"
    /\ ticks = 1
    /\ elapsed = 0

(***************************************************************************)
(* C16: the timeout handed to event::poll is max(0, T - elapsed), a value  *)
(* in [0, T], so the poll never blocks for good; as long as run_app has    *)
(* not returned or failed, the loop goes on and update_fire is called      *)
(* again, also when every poll is ended early by a non-quit event.         *)
(***************************************************************************)
InLoop == pc \in {"draw", "poll", "read", "tick"}

C16_LoopKeepsUpdating ==
    /\ [](pc = "poll" => /\ PollTimeout(elapsed) \in 0..TickRate
                         /\ PollTimeout(elapsed) + elapsed >= TickRate)
    /\ \A k \in 0..(MaxLoopTicks - 1) :
          (InLoop /\ ticks = k) ~> (ticks = k + 1 \/ ~InLoop)

(* An event was read after a poll whose timeout was cut to 0 because the   *)
(* draw took longer than a tick; the update is due in this iteration.      *)
C16_Witness ==
    /\ pc = "tick"
    /\ event \in Events \ {KeyQPress}
    /\ elapsed > TickRate
    /\ ticks < MaxLoopTicks

(***************************************************************************)
(* C17: every frame is rendered from a grid whose dimensions are those of  *)
(* the inner area (the terminal less its border) of the same iteration:    *)
(* resize with the current inner area comes before render_fire in every    *)
(* iteration, also in the first one, where the grid was created with the   *)
(* full terminal size, and after any change of the terminal size.          *)
(***************************************************************************)
Drawn == pc \in {"poll", "read"}

C17_RenderedAtInnerArea ==
    Drawn =>
        LET w == IF term[1] > BorderInset THEN term[1] - BorderInset ELSE 0
            h == IF term[2] > BorderInset THEN term[2] - BorderInset ELSE 0
        IN  /\ app.width = w
            /\ app.height = h
            /\ IsGrid(app.fire_grid, w, h)
            /\ call = [op |-> "render_fire", w |-> w, h |-> h, ignite |-> {}]
            /\ DOMAIN frame = 0..(h - 1)
            /\ \A y \in 0..(h - 1) :
                  /\ DOMAIN frame[y] = 0..(w - 1)
                  /\ \A x \in 0..(w - 1) :
                        frame[y][x] = <<CharIndex(app.fire_grid[y][x]),
                                        ColorIndex(app.fire_grid[y][x])>>

(* A frame drawn after an update and a change of the terminal size: the    *)
(* grid is empty at the new inner area (an update of a grid two columns    *)
(* wide always leaves heat in its source row, so a resize emptied it).     *)
C17_Witness ==
    /\ Drawn
    /\ ticks >= 1
    /\ app.width = 2 /\ app.height >= 1
    /\ AllZero(app.fire_grid, app.width, app.height)
    /\ <<app.width, app.height>> = InnerArea(term)

(***************************************************************************)
(* C18: handling an event (a resize event, a key that is not the quit key, *)
(* a key release, any other event) leaves the heat grid as it was; a       *)
(* resize takes effect only through the resize call of the next draw; and  *)
(* apart from resize and update_fire nothing changes the grid:             *)
(* render_fire only reads it.                                              *)
(***************************************************************************)
C18_OnlyResizeAndUpdateWrite ==
    [][/\ (pc \in {"poll", "read"} /\ pc' \in {"read", "tick"}) => app' = app
       /\ (pc = "draw" /\ pc' = "poll") =>
             \/ /\ <<app.width, app.height>> = InnerArea(term)
                /\ app' = app
             \/ /\ <<app.width, app.height>> # InnerArea(term)
                /\ <<app'.width, app'.height>> = InnerArea(term)
                /\ AllZero(app'.fire_grid, app'.width, app'.height)
       /\ (pc = "tick" /\ pc' = "draw" /\ ~UpdateCalled) => app' = app]_vars

(* A resize event has been handled: the terminal has its new size, the     *)
(* grid still has the old dimensions and its heat.                         *)
C18_Witness ==
    /\ pc = "tick"
    /\ event = ResizeEvent
    /\ ticks >= 1
    /\ <<app.width, app.height>> # InnerArea(term)
    /\ ~AllZero(app.fire_grid, app.width, app.height)

=============================================================================
